---- MODULE Spec2Model ----
(***************************************************************************)
(* Blackjack trainer: hand evaluator and dealer forced play                *)
(* (services/blackjackLogic.ts), the EV engine (dealer outcome             *)
(* distribution, player max-EV recursion, action aggregator) and the hint  *)
(* hook (hooks/useHintSystem.ts).                                          *)
(*                                                                         *)
(* The engine's numbers are IEEE doubles built from 1/13, 4/13, 1.0, 2 and *)
(* 0.5 by + and *.  They are modelled as exact rationals                   *)
(*     (-1)^neg * mag / (2^h * 13^e)                                       *)
(* whose numerator mag is a little-endian sequence of limbs, because the   *)
(* numerators (up to 13^24) exceed the checker's machine integers.         *)
(***************************************************************************)
EXTENDS Integers, Sequences, FiniteSets, Bags, TLC

\* ------------------------------------------------------------ arithmetic

Base == 1000 * 1000

Limb(a, i) == IF i <= Len(a) THEN a[i] ELSE 0

RECURSIVE MagTrim(_)
MagTrim(a) == IF Len(a) > 0 /\ a[Len(a)] = 0 THEN MagTrim(SubSeq(a, 1, Len(a) - 1)) ELSE a

RECURSIVE MagAddC(_, _, _, _)
MagAddC(a, b, i, c) ==
  IF i > Len(a) /\ i > Len(b)
  THEN IF c = 0 THEN <<>> ELSE <<c>>
  ELSE LET s == Limb(a, i) + Limb(b, i) + c
       IN  <<s % Base>> \o MagAddC(a, b, i + 1, s \div Base)

MagAdd(a, b) == MagAddC(a, b, 1, 0)

RECURSIVE MagSubC(_, _, _, _)
MagSubC(a, b, i, c) ==
  IF i > Len(a) THEN <<>>
  ELSE LET s == Limb(a, i) - Limb(b, i) - c
       IN  IF s < 0 THEN <<s + Base>> \o MagSubC(a, b, i + 1, 1)
                    ELSE <<s>> \o MagSubC(a, b, i + 1, 0)

MagSub(a, b) == MagTrim(MagSubC(a, b, 1, 0))

RECURSIVE MagMulC(_, _, _, _)
MagMulC(a, k, i, c) ==
  IF i > Len(a)
  THEN IF c = 0 THEN <<>> ELSE <<c>>
  ELSE LET s == a[i] * k + c
       IN  <<s % Base>> \o MagMulC(a, k, i + 1, s \div Base)

MagMul(a, k) == IF k = 0 THEN <<>> ELSE IF k = 1 THEN a ELSE MagMulC(a, k, 1, 0)

RECURSIVE MagCmpAt(_, _, _)
MagCmpAt(a, b, i) ==
  IF i = 0 THEN 0
  ELSE IF a[i] > b[i] THEN 1
  ELSE IF a[i] < b[i] THEN -1
  ELSE MagCmpAt(a, b, i - 1)

MagCmp(a, b) ==
  IF Len(a) > Len(b) THEN 1
  ELSE IF Len(a) < Len(b) THEN -1
  ELSE MagCmpAt(a, b, Len(a))

\* a * k^n, two factors at a time; k * k stays under 2^31 \div Base
RECURSIVE MagPow(_, _, _)
MagPow(a, k, n) ==
  IF n = 0 \/ a = <<>> THEN a
  ELSE IF n = 1 THEN MagMul(a, k)
  ELSE MagPow(MagMul(a, k * k), k, n - 2)

\* a number  (neg ? -1 : 1) * mag / (2^h * 13^e)
Num(neg, mag, h, e) == [neg |-> neg, mag |-> mag, h |-> h, e |-> e]
Zero == Num(FALSE, <<>>, 0, 0)
One == Num(FALSE, <<1>>, 0, 0)
IsZero(x) == x.mag = <<>>
Max(a, b) == IF a >= b THEN a ELSE b
Lift(x, h, e) == MagPow(MagPow(x.mag, 2, h - x.h), 13, e - x.e)
Neg(x) == IF IsZero(x) THEN x ELSE [x EXCEPT !.neg = ~x.neg]

\* the sum of two magnitudes a, b brought to one denominator 2^h * 13^e
AddLifted(xneg, yneg, a, b, h, e) ==
  IF xneg = yneg THEN Num(xneg, MagAdd(a, b), h, e)
  ELSE IF MagCmp(a, b) = 0 THEN Zero
  ELSE IF MagCmp(a, b) > 0 THEN Num(xneg, MagSub(a, b), h, e)
  ELSE Num(yneg, MagSub(b, a), h, e)

AddAt(x, y, h, e) == AddLifted(x.neg, y.neg, Lift(x, h, e), Lift(y, h, e), h, e)

Add(x, y) ==
  IF IsZero(x) THEN y
  ELSE IF IsZero(y) THEN x
  ELSE AddAt(x, y, Max(x.h, y.h), Max(x.e, y.e))

\* product with a one-limb factor p
Mul(p, x) ==
  IF IsZero(p) \/ IsZero(x) THEN Zero
  ELSE Num(p.neg # x.neg, MagMul(x.mag, p.mag[1]), p.h + x.h, p.e + x.e)

Sign(d) == IF IsZero(d) THEN 0 ELSE IF d.neg THEN -1 ELSE 1

Cmp(x, y) == Sign(Add(x, Neg(y)))

\* ------------------------------------------------------- hand evaluator
\* A card is [rank, isHidden]; its value is VALUES[rank].  Suits play no part in
\* any function modelled here and are left out.

Ranks == {"2", "3", "4", "5", "6", "7", "8", "9", "10", "J", "Q", "K", "A"}

VALUES(rank) ==
  CASE rank = "2" -> 2 [] rank = "3" -> 3 [] rank = "4" -> 4 [] rank = "5" -> 5
    [] rank = "6" -> 6 [] rank = "7" -> 7 [] rank = "8" -> 8 [] rank = "9" -> 9
    [] rank \in {"10", "J", "Q", "K"} -> 10
    [] rank = "A" -> 11

Card(rank, hidden) == [rank |-> rank, isHidden |-> hidden]

\* the for-loops over cards: sum of the values of the cards that are not hidden
RECURSIVE SumVisible(_, _)
SumVisible(cards, i) ==
  IF i > Len(cards) THEN 0
  ELSE (IF cards[i].isHidden THEN 0 ELSE VALUES(cards[i].rank))
       + SumVisible(cards, i + 1)

\* and the number of aces among them
RECURSIVE AcesVisible(_, _)
AcesVisible(cards, i) ==
  IF i > Len(cards) THEN 0
  ELSE (IF ~cards[i].isHidden /\ cards[i].rank = "A" THEN 1 ELSE 0)
       + AcesVisible(cards, i + 1)

\* while (value > 21 && aces > 0) { value -= 10; aces -= 1 }
RECURSIVE Demote(_, _)
Demote(total, usableAces) ==
  IF total > 21 /\ usableAces > 0
  THEN Demote(total - 10, usableAces - 1)
  ELSE <<total, usableAces>>

\* getHandType's loop: every card, hidden or not, an ace as 1
RECURSIVE MinValAll(_, _)
MinValAll(cards, i) ==
  IF i > Len(cards) THEN 0
  ELSE (IF cards[i].rank = "A" THEN 1 ELSE VALUES(cards[i].rank))
       + MinValAll(cards, i + 1)

calculateHandValue(cards) ==
  Demote(SumVisible(cards, 1), AcesVisible(cards, 1))[1]

isSoftHand(cards) ==
  LET value == SumVisible(cards, 1)
      aces == AcesVisible(cards, 1)
      minValue == value - (aces * 10)
  IN  aces > 0 /\ value <= 21 /\ minValue < value

\* countUsableAces' own first loop: an ace counts 11, any other card its value
RECURSIVE SumAcesEleven(_, _)
SumAcesEleven(cards, i) ==
  IF i > Len(cards) THEN 0
  ELSE (IF cards[i].isHidden THEN 0
        ELSE IF cards[i].rank = "A" THEN 11 ELSE VALUES(cards[i].rank))
       + SumAcesEleven(cards, i + 1)

\* while (total > 21 && usableAces > 0) { total -= 10; usableAces -= 1 }
RECURSIVE UsableAfter(_, _)
UsableAfter(total, usableAces) ==
  IF total > 21 /\ usableAces > 0
  THEN UsableAfter(total - 10, usableAces - 1)
  ELSE usableAces

countUsableAces(cards) ==
  UsableAfter(SumAcesEleven(cards, 1), AcesVisible(cards, 1))

getHandType(cards) ==
  IF Len(cards) = 2 /\ cards[1].rank = cards[2].rank THEN "PAIR"
  ELSE LET total == calculateHandValue(cards)
           minVal == MinValAll(cards, 1)
       IN  IF total # minVal THEN "SOFT" ELSE "HARD"

\* ------------------------------------------------------ dealer forced play
\* A deck is [known, fresh]: known is the cards in their order, the last one on
\* top (pop takes it); fresh is the part of a shuffled deck whose order
\* Math.random has yet to decide, a bag of ranks.  A supplied deck is all known;
\* shuffleDeck(createDeck(n)) is all fresh.

KnownDeck(cards) == [known |-> cards, fresh |-> EmptyBag]

\* the cards createDeck pushes: deckCount x 4 suits of every rank
createDeck(deckCount) == [r \in Ranks |-> 4 * deckCount]

\* a permutation drawn by Math.random: every order is possible
shuffleDeck(cardBag) == [known |-> <<>>, fresh |-> cardBag]

DeckLength(deck) == Len(deck.known) + BagCardinality(deck.fresh)

\* currentDeck.pop(): the possible <<card, deck after>>
Pop(deck) ==
  IF Len(deck.known) > 0
  THEN {<<deck.known[Len(deck.known)],
          [deck EXCEPT !.known = SubSeq(deck.known, 1, Len(deck.known) - 1)]>>}
  ELSE {<<Card(r, FALSE), [deck EXCEPT !.fresh = deck.fresh (-) SetToBag({r})]>> :
          r \in BagToSet(deck.fresh)}

\* newHand.cards.forEach(c => c.isHidden = false)
Reveal(cards) == [i \in 1..Len(cards) |-> Card(cards[i].rank, FALSE)]

\* a variant that keeps the exhausted deck
NoReshuffle(deck, rules) == deck

\* if (currentDeck.length === 0) currentDeck = shuffleDeck(createDeck(...))
Reshuffled(deck, rules) ==
  IF DeckLength(deck) = 0 THEN shuffleDeck(createDeck(rules.deckCount)) ELSE deck

\* the while (true) loop: the possible [cards, deck, val] at its break
RECURSIVE DealerLoop(_, _, _)
DealerLoop(cards, currentDeck, rules) ==
  LET val == calculateHandValue(cards)
      isSoft == isSoftHand(cards)
  IN  IF val > 21 THEN {[cards |-> cards, deck |-> currentDeck, val |-> val]}
      ELSE IF val < 17 \/ (val = 17 /\ isSoft /\ rules.dealerHitSoft17)
      THEN UNION {DealerLoop(Append(cards, d[1]), d[2], rules) :
                    d \in Pop(Reshuffled(currentDeck, rules))}
      ELSE {[cards |-> cards, deck |-> currentDeck, val |-> val]}

\* the possible results, each with the dealerHand argument as the call leaves it
\* (the reveal writes to the card objects the argument shares with newHand)
playDealerTurn(deck, dealerHand, rules) ==
  {[updatedDeck |-> o.deck,
    finalHand |-> [cards |-> o.cards,
                   isBusted |-> IF o.val > 21 THEN TRUE ELSE dealerHand.isBusted],
    deck |-> deck,
    dealerHand |-> [dealerHand EXCEPT !.cards = Reveal(dealerHand.cards)]] :
     o \in DealerLoop(Reveal(dealerHand.cards), deck, rules)}

\* ------------------------------------------------------------ EV engine

cardValues == <<2, 3, 4, 5, 6, 7, 8, 9, 10, 11>>

Buckets == {"b17", "b18", "b19", "b20", "b21", "bust", "bj"}

\* 21 counted in the blackjack bucket whatever the call
BucketBJ(v) ==
  CASE v = 17 -> "b17" [] v = 18 -> "b18" [] v = 19 -> "b19"
    [] v = 20 -> "b20" [] v = 21 -> "bj"

Bucket(v) ==
  CASE v = 17 -> "b17" [] v = 18 -> "b18" [] v = 19 -> "b19"
    [] v = 20 -> "b20" [] v = 21 -> "b21"

\* a variant with the ten-valued cards at the weight of one rank
PROB_CARD_OneTen(val) ==
  IF val >= 2 /\ val <= 11 THEN Num(FALSE, <<1>>, 0, 1) ELSE Zero

PROB_CARD(val) ==
  IF val >= 2 /\ val <= 9 THEN Num(FALSE, <<1>>, 0, 1)
  ELSE IF val = 10 THEN Num(FALSE, <<4>>, 0, 1)
  ELSE IF val = 11 THEN Num(FALSE, <<1>>, 0, 1)
  ELSE Zero

EmptyCache == << >>

\* statements in sequence: first is evaluated, then the value of then
After(first, then) == <<first, then>>[2]

CachePut(cache, key, val) == (key :> val) @@ cache

\* a variant that leaves the caches as they are
clearNothing(caches) == caches

clearEVCache(caches) == [dealerCache |-> EmptyCache, playerCache |-> EmptyCache]

\* the ace adjustment: while (next > 21 && nextUsableAces > 0) demote one ace
RECURSIVE DemoteNext(_, _)
DemoteNext(nextVal, nextUsableAces) ==
  IF nextVal > 21 /\ nextUsableAces > 0
  THEN DemoteNext(nextVal - 10, nextUsableAces - 1)
  ELSE <<nextVal, nextUsableAces>>

\* a variant that counts every drawn card as an ace at 11
AddCardEveryAce(total, usableAces, c) == DemoteNext(total + c, usableAces + 1)

AddCard(total, usableAces, c) ==
  DemoteNext(total + c, usableAces + (IF c = 11 THEN 1 ELSE 0))

ZeroDist ==
  [b17 |-> Zero, b18 |-> Zero, b19 |-> Zero, b20 |-> Zero, b21 |-> Zero,
   bust |-> Zero, bj |-> Zero]

DealerKey(currentVal, usableAces, rules) ==
  <<currentVal, usableAces, IF rules.dealerHitSoft17 THEN "H17" ELSE "S17">>

DealerMustHit(currentVal, usableAces, rules) ==
  IF currentVal < 17 THEN TRUE
  ELSE IF currentVal = 17 THEN usableAces > 0 /\ rules.dealerHitSoft17
  ELSE FALSE

Accumulate(dist, p, subDist) ==
  [b17 |-> Add(dist.b17, Mul(p, subDist.b17)),
   b18 |-> Add(dist.b18, Mul(p, subDist.b18)),
   b19 |-> Add(dist.b19, Mul(p, subDist.b19)),
   b20 |-> Add(dist.b20, Mul(p, subDist.b20)),
   b21 |-> Add(dist.b21, Mul(p, subDist.b21)),
   bust |-> Add(dist.bust, Mul(p, subDist.bust)),
   bj |-> Add(dist.bj, Mul(p, subDist.bj))]

RECURSIVE getDealerOutcomeProbs(_, _, _, _, _)
RECURSIVE DealerHitLoop(_, _, _, _)

\* the end of a computed call: r is the loop's result; the dist is stored under
\* cacheKey unless isFirstCard
DealerStore(r, cacheKey, isFirstCard) ==
  [dist |-> r.dist,
   cache |-> IF ~isFirstCard THEN CachePut(r.cache, cacheKey, r.dist) ELSE r.cache]

\* returns the distribution and the dealerCache as the call leaves it
getDealerOutcomeProbs(cache, currentVal, usableAces, rules, isFirstCard) ==
  IF ~isFirstCard /\ DealerKey(currentVal, usableAces, rules) \in DOMAIN cache
  THEN [dist |-> cache[DealerKey(currentVal, usableAces, rules)], cache |-> cache]
  ELSE IF currentVal > 21
  THEN [dist |-> [ZeroDist EXCEPT !["bust"] = One], cache |-> cache]
  ELSE IF ~DealerMustHit(currentVal, usableAces, rules)
  THEN [dist |-> IF currentVal = 21 /\ isFirstCard
                 THEN [ZeroDist EXCEPT !["bj"] = One]
                 ELSE [ZeroDist EXCEPT ![Bucket(currentVal)] = One],
        cache |-> cache]
  ELSE DealerStore(DealerHitLoop([i |-> 1, cache |-> cache, dist |-> ZeroDist],
                                 currentVal, usableAces, rules),
                   DealerKey(currentVal, usableAces, rules), isFirstCard)

\* one pass of the loop body, for cardValues[st.i]; st is the loop index, the
\* dealerCache and the dist accumulated so far
DealerHitStep(st, currentVal, usableAces, rules) ==
  LET next == AddCard(currentVal, usableAces, cardValues[st.i])
      sub == getDealerOutcomeProbs(st.cache, next[1], next[2], rules, FALSE)
  IN  [i |-> st.i + 1,
       cache |-> sub.cache,
       dist |-> Accumulate(st.dist, PROB_CARD(cardValues[st.i]), sub.dist)]

\* for (const cardVal of cardValues)
DealerHitLoop(st, currentVal, usableAces, rules) ==
  IF st.i > Len(cardValues) THEN st
  ELSE DealerHitLoop(DealerHitStep(st, currentVal, usableAces, rules),
                     currentVal, usableAces, rules)

\* a variant that pays a tie as a win
StandTermTieWins(playerTotal, d, p) ==
  IF playerTotal >= d THEN Mul(One, p) ELSE Mul(Neg(One), p)

StandTerm(playerTotal, d, p) ==
  IF playerTotal > d THEN Mul(One, p)
  ELSE IF playerTotal < d THEN Mul(Neg(One), p)
  ELSE Mul(Zero, p)

RECURSIVE StandLoop(_, _, _, _)
StandLoop(ev, d, playerTotal, dealerDist) ==
  IF d > 21 THEN ev
  ELSE StandLoop(Add(ev, StandTerm(playerTotal, d, dealerDist[Bucket(d)])),
                 d + 1, playerTotal, dealerDist)

calculateStandEV(playerTotal, dealerDist) ==
  IF playerTotal > 21 THEN Neg(One)
  ELSE StandLoop(Add(Zero, Mul(One, dealerDist["bust"])), 17, playerTotal, dealerDist)

\* a variant that takes the smaller
MathMin(a, b) == IF Cmp(a, b) <= 0 THEN a ELSE b

MathMax(a, b) == IF Cmp(a, b) >= 0 THEN a ELSE b

RECURSIVE calculateHandMaxEV(_, _, _, _, _)
RECURSIVE PlayerHitRun(_, _, _, _, _)

\* the end of a computed call: maxEV is stored under cacheKey
PlayerStore(r, cacheKey, maxEV) ==
  After(r, [ev |-> maxEV, cache |-> CachePut(r.cache, cacheKey, maxEV)])

\* for (const c of cardValues) from evHit = 0
PlayerHitLoop(cache, total, usableAces, dealerDist, rules) ==
  PlayerHitRun([i |-> 1, cache |-> cache, ev |-> Zero],
               total, usableAces, dealerDist, rules)

\* returns the value and the playerCache as the call leaves it
calculateHandMaxEV(cache, total, usableAces, dealerDist, rules) ==
  IF <<total, usableAces>> \in DOMAIN cache
  THEN [ev |-> cache[<<total, usableAces>>], cache |-> cache]
  ELSE IF total > 21
  THEN [ev |-> Neg(One), cache |-> cache]
  ELSE LET r == PlayerHitLoop(cache, total, usableAces, dealerDist, rules)
       IN  PlayerStore(r, <<total, usableAces>>,
                       MathMax(calculateStandEV(total, dealerDist), r.ev))

\* one pass of the hit loop, for card cardValues[st.i]; st is the loop index, the
\* playerCache and evHit so far
PlayerHitStep(st, total, usableAces, dealerDist, rules) ==
  LET next == AddCard(total, usableAces, cardValues[st.i])
      sub == calculateHandMaxEV(st.cache, next[1], next[2], dealerDist, rules)
  IN  [i |-> st.i + 1,
       cache |-> sub.cache,
       ev |-> Add(st.ev, Mul(PROB_CARD(cardValues[st.i]), sub.ev))]

PlayerHitRun(st, total, usableAces, dealerDist, rules) ==
  IF st.i > Len(cardValues) THEN st
  ELSE PlayerHitRun(PlayerHitStep(st, total, usableAces, dealerDist, rules),
                    total, usableAces, dealerDist, rules)

\* one pass of the Double loop: one card, then a forced stand
DoubleStep(ev, c, total, usableAces, dealerDist) ==
  Add(ev, Mul(PROB_CARD(c),
              calculateStandEV(AddCard(total, usableAces, c)[1], dealerDist)))

RECURSIVE DoubleLoop(_, _, _, _, _)
DoubleLoop(ev, i, total, usableAces, dealerDist) ==
  IF i > Len(cardValues) THEN ev
  ELSE DoubleLoop(DoubleStep(ev, cardValues[i], total, usableAces, dealerDist),
                  i + 1, total, usableAces, dealerDist)

PairCardVal(pairRank) ==
  IF pairRank \in {"J", "Q", "K", "10"} THEN 10
  ELSE IF pairRank = "A" THEN 11
  ELSE CASE pairRank = "2" -> 2 [] pairRank = "3" -> 3 [] pairRank = "4" -> 4
         [] pairRank = "5" -> 5 [] pairRank = "6" -> 6 [] pairRank = "7" -> 7
         [] pairRank = "8" -> 8 [] pairRank = "9" -> 9

\* one pass of the Split loop, for card cardValues[st.i]; st is the loop index,
\* the playerCache and singleHandEV so far
SplitStep(st, cardVal, pairRank, dealerDist, rules) ==
  LET next == DemoteNext(cardVal + cardValues[st.i],
                         (IF cardVal = 11 THEN 1 ELSE 0)
                         + (IF cardValues[st.i] = 11 THEN 1 ELSE 0))
      sub == calculateHandMaxEV(st.cache, next[1], next[2], dealerDist, rules)
  IN  IF pairRank = "A" /\ ~rules.doubleAfterSplit
      THEN [i |-> st.i + 1,
            cache |-> st.cache,
            ev |-> Add(st.ev, Mul(PROB_CARD(cardValues[st.i]),
                                  calculateStandEV(next[1], dealerDist)))]
      ELSE [i |-> st.i + 1,
            cache |-> sub.cache,
            ev |-> Add(st.ev, Mul(PROB_CARD(cardValues[st.i]), sub.ev))]

RECURSIVE SplitRun(_, _, _, _, _)
SplitRun(st, cardVal, pairRank, dealerDist, rules) ==
  IF st.i > Len(cardValues) THEN st
  ELSE SplitRun(SplitStep(st, cardVal, pairRank, dealerDist, rules),
                cardVal, pairRank, dealerDist, rules)

SplitLoop(cache, cardVal, pairRank, dealerDist, rules) ==
  SplitRun([i |-> 1, cache |-> cache, ev |-> Zero], cardVal, pairRank, dealerDist, rules)

Two == Num(FALSE, <<2>>, 0, 0)
Half == Num(FALSE, <<1>>, 1, 0)

\* results.sort((a, b) => b.ev - a.ev): a stable sort, descending by ev
RECURSIVE SortInsert(_, _)
SortInsert(sorted, x) ==
  IF sorted = <<>> THEN <<x>>
  ELSE IF Cmp(Head(sorted).ev, x.ev) >= 0
  THEN <<Head(sorted)>> \o SortInsert(Tail(sorted), x)
  ELSE <<x>> \o sorted

RECURSIVE SortFrom(_, _, _)
SortFrom(sorted, results, i) ==
  IF i > Len(results) THEN sorted
  ELSE SortFrom(SortInsert(sorted, results[i]), results, i + 1)

\* a variant that leaves the push order
SortNot(results) == results

SortByEV(results) == SortFrom(<<>>, results, 1)

StandEntry(playerHandTotal, dealerDist) ==
  <<[action |-> "Stand", ev |-> calculateStandEV(playerHandTotal, dealerDist)]>>

HitEntry(h) == <<[action |-> "Hit", ev |-> h.ev]>>

\* a variant without the doubled stake
DoubleEntrySingle(playerHandTotal, usableAces, dealerDist) ==
  <<[action |-> "Double",
     ev |-> DoubleLoop(Zero, 1, playerHandTotal, usableAces, dealerDist)]>>

DoubleEntry(playerHandTotal, usableAces, dealerDist) ==
  <<[action |-> "Double",
     ev |-> Mul(Two, DoubleLoop(Zero, 1, playerHandTotal, usableAces, dealerDist))]>>

SurrenderEntry(rules) ==
  IF rules.surrender # "none"
  THEN <<[action |-> "Surrender", ev |-> Neg(Half)]>>
  ELSE <<>>

SplitEntry(isPair, pairRank, s) ==
  IF isPair /\ pairRank # "null"
  THEN <<[action |-> "Split", ev |-> Mul(Two, s.ev)]>>
  ELSE <<>>

\* the call's results once the dealer's distribution d, the Hit loop's result h
\* and the Split loop's result s are known
AllResults(d, h, s, playerHandTotal, usableAces, isPair, pairRank, rules) ==
  After(s,
  [results |-> SortByEV(StandEntry(playerHandTotal, d.dist) \o HitEntry(h)
                        \o DoubleEntry(playerHandTotal, usableAces, d.dist)
                        \o SurrenderEntry(rules) \o SplitEntry(isPair, pairRank, s)),
   dealerDist |-> d.dist,
   dealerCache |-> d.cache,
   playerCache |-> s.cache])

AfterHit(d, h, playerHandTotal, usableAces, isPair, pairRank, rules) ==
  After(h,
  AllResults(d, h,
             IF isPair /\ pairRank # "null"
             THEN SplitLoop(h.cache, PairCardVal(pairRank), pairRank, d.dist, rules)
             ELSE [ev |-> Zero, cache |-> h.cache],
             playerHandTotal, usableAces, isPair, pairRank, rules))

AfterDealer(d, playerCache, playerHandTotal, usableAces, isPair, pairRank, rules) ==
  After(d,
  AfterHit(d, PlayerHitLoop(playerCache, playerHandTotal, usableAces, d.dist, rules),
           playerHandTotal, usableAces, isPair, pairRank, rules))

AfterClear(cleared, playerHandTotal, usableAces, isPair, pairRank, dealerUpVal, rules) ==
  AfterDealer(getDealerOutcomeProbs(cleared.dealerCache, dealerUpVal,
                                    IF dealerUpVal = 11 THEN 1 ELSE 0, rules, TRUE),
              cleared.playerCache, playerHandTotal, usableAces, isPair, pairRank, rules)

\* the whole call; caches are the module-level dealerCache and playerCache
calculateAllActionEVs(caches, playerHandTotal, usableAces, isPair, pairRank, dealerUpVal, rules) ==
  AfterClear(clearEVCache(caches), playerHandTotal, usableAces, isPair, pairRank,
             dealerUpVal, rules)

BestOf(r) ==
  [bestAction |-> IF Len(r.results) > 0 THEN r.results[1].action ELSE "Stand",
   allActions |-> r.results,
   dealerDist |-> r.dealerDist,
   dealerCache |-> r.dealerCache,
   playerCache |-> r.playerCache]

getBestActionFromEV(caches, playerHandTotal, usableAces, isPair, pairRank, dealerUpVal, rules) ==
  BestOf(calculateAllActionEVs(caches, playerHandTotal, usableAces, isPair,
                               pairRank, dealerUpVal, rules))

\* --------------------------------------------------------------- hint hook

Actions == {"Stand", "Hit", "Double", "Surrender", "Split"}

RECURSIVE Includes(_, _)
Includes(list, x) ==
  IF list = <<>> THEN FALSE
  ELSE IF Head(list) = x THEN TRUE ELSE Includes(Tail(list), x)

\* a variant that takes the last element
LastOrNull(list) == IF Len(list) > 0 THEN list[Len(list)] ELSE "null"

\* allowedActions[0] || null
FirstOrNull(list) == IF Len(list) > 0 THEN list[1] ELSE "null"

\* the body of the effect: the values it passes to setHintAction and
\* setHasUsedHints.  in.recommended is what getBasicStrategyAction returns for
\* the current hand, in.allowed what getAllowedActions() returns.
HintEffect(in, usedBefore) ==
  IF in.gameState = 3 /\ in.hintsEnabled
  THEN IF ~(in.activeHandIndex < in.numHands) \/ ~(in.dealerCards > 0)
       THEN [hintAction |-> "null", hasUsedHints |-> usedBefore]
       ELSE [hintAction |->
               IF Includes(in.allowed, in.recommended) THEN in.recommended
               ELSE IF Includes(in.allowed, "Stand") THEN "Stand"
               ELSE IF Includes(in.allowed, "Hit") THEN "Hit"
               ELSE FirstOrNull(in.allowed),
             hasUsedHints |-> TRUE]
  ELSE [hintAction |-> "null", hasUsedHints |-> usedBefore]

\* ------------------------------------------------------------ statistics
\* An object keyed by strings is a function; {} is the empty function.

EmptyStats ==
  [hard |-> << >>, soft |-> << >>, pairs |-> << >>, heatmap |-> << >>,
   streak |-> 0, maxStreak |-> 0, streakMilestones |-> << >>]

\* the storage holds the texts saved under STATS_KEY, none or one;
\* localStorage.getItem returns null when there is none
NoData == << >>

\* JSON.stringify of a stats object and JSON.parse of that text: objects of
\* numbers, strings and arrays come back with the same content, as new objects
JSONstringify(stats) == <<stats>>
JSONparse(data) == data[1]

\* x || 0
OrZero(x) == IF x = 0 THEN 0 ELSE x

\* the object loadStats returns; shared says it is the initialStats object
\* itself and not a new one
loadStats(store, init) ==
  IF store = NoData THEN [stats |-> init, shared |-> TRUE]
  ELSE [stats |-> [hard |-> JSONparse(store).hard,
                   soft |-> JSONparse(store).soft,
                   pairs |-> JSONparse(store).pairs,
                   heatmap |-> JSONparse(store).heatmap,
                   streak |-> OrZero(JSONparse(store).streak),
                   maxStreak |-> OrZero(JSONparse(store).maxStreak),
                   streakMilestones |-> JSONparse(store).streakMilestones],
        shared |-> FALSE]

saveStats(stats) == JSONstringify(stats)

milestones == <<10, 25, 50, 100, 150, 200, 250, 300>>

NumIncludes(list, x) == \E i \in 1..Len(list) : list[i] = x

\* push(x) then sort((a, b) => a - b)
RECURSIVE PushSorted(_, _)
PushSorted(list, x) ==
  IF list = << >> THEN <<x>>
  ELSE IF Head(list) <= x THEN <<Head(list)>> \o PushSorted(Tail(list), x)
  ELSE <<x>> \o list

\* stats[category][key] || { correct: 0, total: 0 }, counted
EntryAfter(matrix, key, isCorrect) ==
  IF key \in DOMAIN matrix
  THEN [correct |-> matrix[key].correct + (IF isCorrect THEN 1 ELSE 0),
        total |-> matrix[key].total + 1]
  ELSE [correct |-> IF isCorrect THEN 1 ELSE 0, total |-> 1]

\* the stats object as recordPracticeResult leaves it
Recorded(stats, key, category, isCorrect, today) ==
  LET streak == IF isCorrect THEN stats.streak + 1 ELSE 0
  IN  [hard |-> IF category = "hard"
                THEN (key :> EntryAfter(stats.hard, key, isCorrect)) @@ stats.hard
                ELSE stats.hard,
       soft |-> IF category = "soft"
                THEN (key :> EntryAfter(stats.soft, key, isCorrect)) @@ stats.soft
                ELSE stats.soft,
       pairs |-> IF category = "pairs"
                 THEN (key :> EntryAfter(stats.pairs, key, isCorrect)) @@ stats.pairs
                 ELSE stats.pairs,
       heatmap |-> (today :> (IF today \in DOMAIN stats.heatmap
                              THEN stats.heatmap[today] ELSE 0) + 1) @@ stats.heatmap,
       streak |-> streak,
       maxStreak |-> IF streak > stats.maxStreak THEN streak ELSE stats.maxStreak,
       streakMilestones |->
         IF NumIncludes(milestones, streak) /\ ~NumIncludes(stats.streakMilestones, streak)
         THEN PushSorted(stats.streakMilestones, streak)
         ELSE stats.streakMilestones]

\* ------------------------------------------------------------------ bounds

MaxCards == 3
MaxDeck == 2
MaxAllowed == 2
MaxRecords == 3

HandRanks == {"A", "2", "5", "9", "K"}
DealerRanks == {"A", "6", "K"}
DeckRanks == {"A", "5", "K"}
DeckCounts == {1, 2, 6, 8}

RECURSIVE SeqsUpTo(_, _)
SeqsUpTo(S, n) ==
  IF n = 0 THEN {<<>>}
  ELSE LET shorter == SeqsUpTo(S, n - 1)
       IN  shorter \cup {Append(q, x) : q \in shorter, x \in S}

RECURSIVE NoRepeat(_)
NoRepeat(list) ==
  IF list = <<>> THEN TRUE
  ELSE ~Includes(Tail(list), Head(list)) /\ NoRepeat(Tail(list))

AllowedLists == {l \in SeqsUpTo(Actions, MaxAllowed) : NoRepeat(l)}

Upcards == 2..11
SurrenderModes == {"none", "late", "early", "garbled"}

Query(total, usableAces, isPair, pairRank, dealerUpVal) ==
  [playerHandTotal |-> total, usableAces |-> usableAces, isPair |-> isPair,
   pairRank |-> pairRank, dealerUpVal |-> dealerUpVal]

EVQueries ==
  {Query(21, 1, FALSE, "null", u) : u \in Upcards}
    \cup {Query(11, 0, FALSE, "null", u) : u \in Upcards}
    \cup {Query(22, 0, FALSE, "null", 6)}
    \cup {Query(16, 0, TRUE, "8", u) : u \in Upcards}
    \cup {Query(12, 1, TRUE, "A", u) : u \in Upcards}

EVRules ==
  [deckCount : {6}, dealerHitSoft17 : BOOLEAN, doubleAfterSplit : BOOLEAN,
   surrender : SurrenderModes]

\* every query under late surrender; the other surrender settings against a 6
EVCases ==
  {c \in EVQueries \X EVRules : c[2].surrender = "late" \/ c[1].dealerUpVal = 6}

SeqQueries ==
  {Query(12, 1, TRUE, "A", 6)}
    \cup {Query(16, 0, FALSE, "null", u) : u \in {6, 10}}

SeqSurrenderModes == {"none", "late"}

\* a hand state (total, usableAces): an ace counted as 11 needs a total of 11 or
\* more, and two of them pass 21
StartStates == {st \in (2..21) \X (0..1) : st[2] = 1 => st[1] >= 11}

StatKeys == {"16v10", "A7v6"}
Categories == {"hard", "soft", "pairs"}
Days == {"2026-01-01", "2026-01-02"}

\* the stats nine correct answers in a row leave in the storage
NineInARow ==
  [hard |-> ("16v10" :> [correct |-> 9, total |-> 9]), soft |-> << >>,
   pairs |-> << >>, heatmap |-> ("2026-01-01" :> 9), streak |-> 9,
   maxStreak |-> 9, streakMilestones |-> << >>]

\* ----------------------------------------------------------- state machine

VARIABLES
  hand,         \* a hand's cards, as the game deals them
  handEval,     \* what the hand evaluator returns for hand
  deck,         \* the deck argument of playDealerTurn
  dealerHand,   \* its dealerHand argument
  dealerOut,    \* what it returned
  rules,        \* the GameRules RulesView edits
  query,        \* the hand situation the EV engine is asked about
  dealerCache,  \* the module-level memo caches
  playerCache,
  evOut,        \* what getBestActionFromEV returned, and its dealerDist
  hookIn,       \* the arguments of useHintSystem
  hintAction,   \* its two useState cells
  hasUsedHints,
  chain,        \* a chain of hit successors: whose recursion, start, current, hits
  storage,      \* localStorage's item under STATS_KEY
  initialStats, \* the module-level initialStats object, as it now is
  statsOut,     \* what the last loadStats / recordPracticeResult / clearStats returned
  recorded      \* recordPracticeResult calls so far

vars == <<hand, handEval, deck, dealerHand, dealerOut, rules, query, dealerCache,
          playerCache, evOut, hookIn, hintAction, hasUsedHints, chain, storage,
          initialStats, statsOut, recorded>>

handVars == <<hand, handEval>>
dealerVars == <<deck, dealerHand, dealerOut>>
evVars == <<query, dealerCache, playerCache, evOut>>
hookVars == <<hookIn, hintAction, hasUsedHints>>
chainVars == <<chain>>
statsVars == <<storage, initialStats, statsOut, recorded>>

DEFAULT_RULES ==
  [deckCount |-> 6, dealerHitSoft17 |-> TRUE, doubleAfterSplit |-> TRUE,
   surrender |-> "late"]

EvalHand(cards) ==
  [value |-> calculateHandValue(cards),
   isSoft |-> isSoftHand(cards),
   usableAces |-> countUsableAces(cards),
   handType |-> getHandType(cards)]

NoDealerOut ==
  [called |-> FALSE, updatedDeck |-> KnownDeck(<<>>),
   finalHand |-> [cards |-> <<>>, isBusted |-> FALSE]]

NoEVOut ==
  [called |-> FALSE, args |-> Query(0, 0, FALSE, "null", 0), rules |-> DEFAULT_RULES,
   bestAction |-> "null", allActions |-> <<>>, dealerDist |-> ZeroDist,
   leftover |-> FALSE]

HookMount ==
  [gameState |-> 0, hintsEnabled |-> FALSE, numHands |-> 0, activeHandIndex |-> 0,
   dealerCards |-> 0, allowed |-> <<>>, recommended |-> "Stand"]

HandIdle == hand = <<>> /\ handEval = EvalHand(<<>>)
DealerIdle ==
  /\ deck = KnownDeck(<<>>)
  /\ dealerHand = [cards |-> <<>>, isBusted |-> FALSE]
  /\ dealerOut = NoDealerOut
EVIdle ==
  /\ query = Query(0, 0, FALSE, "null", 0)
  /\ dealerCache = EmptyCache
  /\ playerCache = EmptyCache
  /\ evOut = NoEVOut
HookIdle ==
  /\ hookIn = HookMount
  /\ hintAction = HintEffect(HookMount, FALSE).hintAction
  /\ hasUsedHints = HintEffect(HookMount, FALSE).hasUsedHints

ChainIdle == chain = [who |-> "none", start |-> <<0, 0>>, cur |-> <<0, 0>>, hits |-> 0]
StatsIdle ==
  /\ storage = NoData
  /\ initialStats = EmptyStats
  /\ statsOut = [op |-> "none", value |-> EmptyStats]
  /\ recorded = 0

\* ---- hand evaluator

NewHand ==
  /\ hand # <<>>
  /\ hand' = <<>>
  /\ handEval' = EvalHand(hand')
  /\ UNCHANGED <<dealerVars, rules, evVars, hookVars, chainVars, statsVars>>

DealCard ==
  /\ Len(hand) < MaxCards
  /\ \E r \in HandRanks, h \in BOOLEAN :
       /\ hand' = Append(hand, Card(r, h))
       /\ handEval' = EvalHand(hand')
  /\ UNCHANGED <<dealerVars, rules, evVars, hookVars, chainVars, statsVars>>

InitHand == HandIdle /\ DealerIdle /\ rules = DEFAULT_RULES /\ EVIdle /\ HookIdle /\ ChainIdle /\ StatsIdle
NextHand == NewHand \/ DealCard
SpecHand == InitHand /\ [][NextHand]_vars

\* ---- dealer forced play

\* the round's dealer turn, played once
PlayDealerTurn ==
  /\ ~dealerOut.called
  /\ \E o \in playDealerTurn(deck, dealerHand, rules) :
       /\ dealerOut' = [called |-> TRUE, updatedDeck |-> o.updatedDeck,
                        finalHand |-> o.finalHand]
       /\ deck' = o.deck
       /\ dealerHand' = o.dealerHand
  /\ UNCHANGED <<handVars, rules, evVars, hookVars, chainVars, statsVars>>

InitDealer ==
  /\ HandIdle /\ EVIdle /\ HookIdle /\ ChainIdle /\ StatsIdle
  /\ rules \in [deckCount : DeckCounts, dealerHitSoft17 : BOOLEAN,
                doubleAfterSplit : {TRUE}, surrender : {"late"}]
  /\ \E cards \in SeqsUpTo(DeckRanks, MaxDeck) :
       deck = KnownDeck([i \in 1..Len(cards) |-> Card(cards[i], FALSE)])
  /\ \E r1 \in DealerRanks, r2 \in DealerRanks, h \in BOOLEAN :
       dealerHand = [cards |-> <<Card(r1, FALSE), Card(r2, h)>>, isBusted |-> FALSE]
  /\ dealerOut = NoDealerOut
NextDealer == PlayDealerTurn
SpecDealer == InitDealer /\ [][NextDealer]_vars

\* ---- EV engine

\* getBestActionFromEV(q..., rules) against the module's caches.  evOut.leftover
\* records that the playerCache held another call's entries when this call began.
GetBestAction(q) ==
  \E r \in {getBestActionFromEV([dealerCache |-> dealerCache,
                                  playerCache |-> playerCache],
                                 q.playerHandTotal, q.usableAces, q.isPair, q.pairRank,
                                 q.dealerUpVal, rules)} :
    /\ evOut' = [called |-> TRUE, args |-> q, rules |-> rules,
                 bestAction |-> r.bestAction, allActions |-> r.allActions,
                 dealerDist |-> r.dealerDist,
                 leftover |-> /\ playerCache # EmptyCache
                              /\ playerCache # r.playerCache]
    /\ dealerCache' = r.dealerCache
    /\ playerCache' = r.playerCache

\* one query, drawn at the start
AskBestAction ==
  /\ GetBestAction(query)
  /\ UNCHANGED <<handVars, dealerVars, rules, query, hookVars, chainVars, statsVars>>

InitEV ==
  /\ HandIdle /\ DealerIdle /\ HookIdle /\ ChainIdle /\ StatsIdle
  /\ \E c \in EVCases : query = c[1] /\ rules = c[2]
  /\ dealerCache = EmptyCache
  /\ playerCache = EmptyCache
  /\ evOut = NoEVOut
NextEV == AskBestAction
SpecEV == InitEV /\ [][NextEV]_vars

\* a run of queries, the rules edited in between
AskNext ==
  /\ \E q \in SeqQueries : query' = q /\ GetBestAction(q)
  /\ UNCHANGED <<handVars, dealerVars, rules, hookVars, chainVars, statsVars>>

SetDealerHitSoft17 ==
  /\ \E v \in BOOLEAN : rules' = [rules EXCEPT !.dealerHitSoft17 = v]
  /\ rules' # rules
  /\ UNCHANGED <<handVars, dealerVars, evVars, hookVars, chainVars, statsVars>>

SetDoubleAfterSplit ==
  /\ \E v \in BOOLEAN : rules' = [rules EXCEPT !.doubleAfterSplit = v]
  /\ rules' # rules
  /\ UNCHANGED <<handVars, dealerVars, evVars, hookVars, chainVars, statsVars>>

SetSurrender ==
  /\ \E v \in SeqSurrenderModes : rules' = [rules EXCEPT !.surrender = v]
  /\ rules' # rules
  /\ UNCHANGED <<handVars, dealerVars, evVars, hookVars, chainVars, statsVars>>

handleResetToDefault ==
  /\ rules # DEFAULT_RULES
  /\ rules' = DEFAULT_RULES
  /\ UNCHANGED <<handVars, dealerVars, evVars, hookVars, chainVars, statsVars>>

InitSeq == HandIdle /\ DealerIdle /\ rules = DEFAULT_RULES /\ EVIdle /\ HookIdle /\ ChainIdle /\ StatsIdle
NextSeq ==
  AskNext \/ SetDealerHitSoft17 \/ SetDoubleAfterSplit \/ SetSurrender
    \/ handleResetToDefault
SpecSeq == InitSeq /\ [][NextSeq]_vars

\* ---- hint hook: a render with new arguments, then the effect

Render(in) ==
  /\ in # hookIn
  /\ hookIn' = in
  /\ hintAction' = HintEffect(in, hasUsedHints).hintAction
  /\ hasUsedHints' = HintEffect(in, hasUsedHints).hasUsedHints
  /\ UNCHANGED <<handVars, dealerVars, rules, evVars, chainVars, statsVars>>

SetGameState == \E g \in {0, 3} : Render([hookIn EXCEPT !.gameState = g])
SetHintsEnabled == \E b \in BOOLEAN : Render([hookIn EXCEPT !.hintsEnabled = b])
SetHands ==
  \E n \in 0..1, i \in 0..1 :
    Render([hookIn EXCEPT !.numHands = n, !.activeHandIndex = i])
SetDealerCards == \E n \in 0..1 : Render([hookIn EXCEPT !.dealerCards = n])
SetSituation ==
  \E l \in AllowedLists, a \in Actions :
    Render([hookIn EXCEPT !.allowed = l, !.recommended = a])

InitHook == HandIdle /\ DealerIdle /\ rules = DEFAULT_RULES /\ EVIdle /\ HookIdle /\ ChainIdle /\ StatsIdle
NextHook ==
  SetGameState \/ SetHintsEnabled \/ SetHands \/ SetDealerCards \/ SetSituation
SpecHook == InitHook /\ [][NextHook]_vars

\* ---- chains of hit successors in the two recursions

\* calculateHandMaxEV recurses on every card while the total is at most 21
PlayerHit ==
  /\ chain.who = "player"
  /\ chain.cur[1] <= 21
  /\ \E i \in 1..Len(cardValues) :
       chain' = [chain EXCEPT !.cur = AddCard(chain.cur[1], chain.cur[2], cardValues[i]),
                              !.hits = chain.hits + 1]
  /\ UNCHANGED <<handVars, dealerVars, rules, evVars, hookVars, statsVars>>

\* getDealerOutcomeProbs recurses on every card while the dealer must hit
DealerHit ==
  /\ chain.who = "dealer"
  /\ chain.cur[1] <= 21
  /\ DealerMustHit(chain.cur[1], chain.cur[2], rules)
  /\ \E i \in 1..Len(cardValues) :
       chain' = [chain EXCEPT !.cur = AddCard(chain.cur[1], chain.cur[2], cardValues[i]),
                              !.hits = chain.hits + 1]
  /\ UNCHANGED <<handVars, dealerVars, rules, evVars, hookVars, statsVars>>

InitChain ==
  /\ HandIdle /\ DealerIdle /\ EVIdle /\ HookIdle /\ StatsIdle
  /\ \E h \in BOOLEAN : rules = [DEFAULT_RULES EXCEPT !.dealerHitSoft17 = h]
  /\ \E w \in {"player", "dealer"}, st \in StartStates :
       chain = [who |-> w, start |-> st, cur |-> st, hits |-> 0]
NextChain == PlayerHit \/ DealerHit
SpecChain == InitChain /\ [][NextChain]_vars

\* ---- statistics

RecordPracticeResult ==
  /\ recorded < MaxRecords
  /\ \E key \in StatKeys, category \in Categories, isCorrect \in BOOLEAN, today \in Days :
       \E l \in {loadStats(storage, initialStats)} :
         \E stats \in {Recorded(l.stats, key, category, isCorrect, today)} :
           /\ initialStats' = IF l.shared THEN stats ELSE initialStats
           /\ storage' = saveStats(stats)
           /\ statsOut' = [op |-> "recordPracticeResult", value |-> stats]
  /\ recorded' = recorded + 1
  /\ UNCHANGED <<handVars, dealerVars, rules, evVars, hookVars, chainVars>>

ClearStats ==
  /\ storage' = NoData
  /\ statsOut' = [op |-> "clearStats", value |-> initialStats]
  /\ UNCHANGED <<handVars, dealerVars, rules, evVars, hookVars, chainVars,
                 initialStats, recorded>>

LoadStats ==
  /\ statsOut' = [op |-> "loadStats", value |-> loadStats(storage, initialStats).stats]
  /\ UNCHANGED <<handVars, dealerVars, rules, evVars, hookVars, chainVars,
                 storage, initialStats, recorded>>

InitStats ==
  /\ HandIdle /\ DealerIdle /\ rules = DEFAULT_RULES /\ EVIdle /\ HookIdle /\ ChainIdle
  /\ storage \in {NoData, saveStats(NineInARow)}
  /\ initialStats = EmptyStats
  /\ statsOut = [op |-> "none", value |-> EmptyStats]
  /\ recorded = 0
NextStats == RecordPracticeResult \/ ClearStats \/ LoadStats
SpecStats == InitStats /\ [][NextStats]_vars

\* -------------------------------------------------------------- properties

NoCaches == [dealerCache |-> EmptyCache, playerCache |-> EmptyCache]

HasAction(list, a) == \E i \in 1..Len(list) : list[i].action = a

EVOf(list, a) == list[CHOOSE i \in 1..Len(list) : list[i].action = a].ev

\* what the last call returned and left in the caches is what f holds
SameAsRun(f) ==
  /\ evOut.bestAction = f.bestAction
  /\ evOut.allActions = f.allActions
  /\ evOut.dealerDist = f.dealerDist
  /\ dealerCache = f.dealerCache
  /\ playerCache = f.playerCache

\* C1: in any run of calls, with the rules edited in between, what a call
\* returns and what it leaves in dealerCache and playerCache are what the same
\* arguments give from empty caches.
C1_FreshEachCall ==
  evOut.called =>
    SameAsRun(getBestActionFromEV(NoCaches, evOut.args.playerHandTotal,
                                  evOut.args.usableAces, evOut.args.isPair,
                                  evOut.args.pairRank, evOut.args.dealerUpVal,
                                  evOut.rules))

\* a call that began with another call's entries in the playerCache
C1_AfterAnotherCall ==
  /\ evOut.called
  /\ evOut.leftover
  /\ evOut.args.pairRank = "A"
  /\ playerCache # EmptyCache

\* C2: countUsableAces(cards) > 0 exactly when isSoftHand(cards).
C2_AceInvariant == (handEval.usableAces > 0) <=> handEval.isSoft

\* C3: the hand playDealerTurn returns has total >= 17, and under
\* dealerHitSoft17 it is not a 17 with an ace counted as 11.
C3_DealerStands ==
  dealerOut.called =>
    /\ calculateHandValue(dealerOut.finalHand.cards) >= 17
    /\ rules.dealerHitSoft17 =>
         ~(/\ calculateHandValue(dealerOut.finalHand.cards) = 17
           /\ countUsableAces(dealerOut.finalHand.cards) > 0)

SumDist(d) ==
  Add(Add(Add(Add(Add(Add(d.b17, d.b18), d.b19), d.b20), d.b21), d.bust), d.bj)

InUnit(x) == (IsZero(x) \/ ~x.neg) /\ Cmp(x, One) <= 0

DistOK(d) == Cmp(SumDist(d), One) = 0 /\ \A b \in Buckets : InUnit(d[b])

\* C4: the seven buckets of the distribution of the top-level call sum to 1 and
\* each lies in [0, 1]; so does every distribution the call left in dealerCache.
C4_Conservation ==
  evOut.called =>
    /\ DistOK(evOut.dealerDist)
    /\ \A k \in DOMAIN dealerCache : DistOK(dealerCache[k])

C4_AceUpS17 ==
  /\ evOut.called
  /\ evOut.args.dealerUpVal = 11
  /\ ~evOut.rules.dealerHitSoft17
  /\ dealerCache # EmptyCache
  /\ ~IsZero(evOut.dealerDist.bust)

PushOrder(a) ==
  CASE a = "Stand" -> 1 [] a = "Hit" -> 2 [] a = "Double" -> 3
    [] a = "Surrender" -> 4 [] a = "Split" -> 5

Tied(l) ==
  \E i \in 1..Len(l), j \in 1..Len(l) : i < j /\ Cmp(l[i].ev, l[j].ev) = 0

\* C5: the list is in non-increasing EV order, equal EVs in the push order
\* Stand, Hit, Double, Surrender, Split, and bestAction is the first entry's.
C5_SortedStable ==
  evOut.called =>
    /\ \A i \in 1..Len(evOut.allActions), j \in 1..Len(evOut.allActions) :
         i < j =>
           \/ Cmp(evOut.allActions[i].ev, evOut.allActions[j].ev) > 0
           \/ /\ Cmp(evOut.allActions[i].ev, evOut.allActions[j].ev) = 0
              /\ PushOrder(evOut.allActions[i].action)
                   < PushOrder(evOut.allActions[j].action)
    /\ Len(evOut.allActions) > 0
    /\ evOut.bestAction = evOut.allActions[1].action

C5_TiedEntries ==
  /\ evOut.called
  /\ Tied(evOut.allActions)
  /\ evOut.allActions[1].action = "Surrender"

\* C6: with rules.surrender neither 'late' nor 'early' the list holds no
\* Surrender entry.
C6_UnknownModeOmitted ==
  (evOut.called /\ evOut.rules.surrender \notin {"late", "early"}) =>
    ~HasAction(evOut.allActions, "Surrender")

FlipDAS(r) == [r EXCEPT !.doubleAfterSplit = ~r.doubleAfterSplit]

\* out is a call's record, other the list of the same call under the other
\* doubleAfterSplit setting
ForcedStandNoBetter(out, other) ==
  IF out.rules.doubleAfterSplit
  THEN Cmp(EVOf(other, "Split"), EVOf(out.allActions, "Split")) <= 0
  ELSE Cmp(EVOf(out.allActions, "Split"), EVOf(other, "Split")) <= 0

\* C7: for a pair of aces the Split EV under doubleAfterSplit = false is at
\* most the Split EV under doubleAfterSplit = true, all else equal.
C7_SplitAces ==
  (evOut.called /\ evOut.args.isPair /\ evOut.args.pairRank = "A") =>
    ForcedStandNoBetter(evOut,
      calculateAllActionEVs(NoCaches, evOut.args.playerHandTotal,
                            evOut.args.usableAces, evOut.args.isPair,
                            evOut.args.pairRank, evOut.args.dealerUpVal,
                            FlipDAS(evOut.rules)).results)

C7_AcesForcedStand ==
  /\ evOut.called
  /\ evOut.args.isPair /\ evOut.args.pairRank = "A"
  /\ ~evOut.rules.doubleAfterSplit
  /\ evOut.args.dealerUpVal = 6
  /\ HasAction(evOut.allActions, "Split")

\* C8: for playerTotal 21 with usableAces 1 the Stand EV is P(bust) + P(17..20);
\* with P(21) it makes up 1, and the bj bucket holds nothing.
C8_Soft21Stand ==
  (evOut.called /\ evOut.args.playerHandTotal = 21 /\ evOut.args.usableAces = 1) =>
    /\ Cmp(EVOf(evOut.allActions, "Stand"),
           Add(evOut.dealerDist.bust,
               Add(evOut.dealerDist.b17,
                   Add(evOut.dealerDist.b18,
                       Add(evOut.dealerDist.b19, evOut.dealerDist.b20))))) = 0
    /\ Cmp(Add(EVOf(evOut.allActions, "Stand"), evOut.dealerDist.b21), One) = 0
    /\ IsZero(evOut.dealerDist.bj)

C8_Soft21AgainstTen ==
  /\ evOut.called
  /\ evOut.args.playerHandTotal = 21 /\ evOut.args.usableAces = 1
  /\ evOut.args.dealerUpVal = 10
  /\ ~IsZero(evOut.dealerDist.b21)

\* C9: under H17, DAS, late surrender, 6 decks, 11 against a 6 ranks Double
\* first, its EV above the Hit EV and above the Stand EV.
C9_DoubleEleven ==
  (evOut.called /\ evOut.args = Query(11, 0, FALSE, "null", 6)
     /\ evOut.rules = DEFAULT_RULES) =>
    /\ evOut.bestAction = "Double"
    /\ evOut.allActions[1].action = "Double"
    /\ Cmp(EVOf(evOut.allActions, "Double"), EVOf(evOut.allActions, "Hit")) > 0
    /\ Cmp(EVOf(evOut.allActions, "Double"), EVOf(evOut.allActions, "Stand")) > 0

C9_ElevenAgainstSix ==
  /\ evOut.called
  /\ evOut.args = Query(11, 0, FALSE, "null", 6)
  /\ evOut.rules = DEFAULT_RULES
  /\ Len(evOut.allActions) = 4

AllowedSet == {hookIn.allowed[i] : i \in 1..Len(hookIn.allowed)}

HintActive ==
  /\ hookIn.gameState = 3 /\ hookIn.hintsEnabled
  /\ hookIn.activeHandIndex < hookIn.numHands
  /\ hookIn.dealerCards > 0

\* C10: in the player turn with hints on, a hand and an upcard, the hint is the
\* recommended action if allowed, else Stand if allowed, else Hit if allowed,
\* else the first allowed action; it is an allowed action, and null only when
\* none is allowed.  Outside the player turn or with hints off it is null.
C10_HintAllowed ==
  /\ HintActive =>
       /\ hintAction =
            IF hookIn.recommended \in AllowedSet THEN hookIn.recommended
            ELSE IF "Stand" \in AllowedSet THEN "Stand"
            ELSE IF "Hit" \in AllowedSet THEN "Hit"
            ELSE IF hookIn.allowed = <<>> THEN "null"
            ELSE hookIn.allowed[1]
       /\ hintAction = "null" <=> hookIn.allowed = <<>>
       /\ hintAction # "null" => hintAction \in AllowedSet
  /\ ~(hookIn.gameState = 3 /\ hookIn.hintsEnabled) => hintAction = "null"

C10_LastFallback ==
  /\ HintActive
  /\ hookIn.recommended = "Hit"
  /\ hookIn.allowed = <<"Double", "Split">>
  /\ hintAction = "Double"

\* C11: getHandType returns PAIR exactly for two cards of equal rank; otherwise
\* SOFT exactly when isSoftHand holds, and HARD otherwise.
C11_HandType ==
  handEval.handType =
    IF Len(hand) = 2 /\ hand[1].rank = hand[2].rank THEN "PAIR"
    ELSE IF handEval.isSoft THEN "SOFT" ELSE "HARD"

\* C15: a playDealerTurn call leaves the deck and the dealerHand it was given
\* as they were: same cards, same order, same isHidden flags, same isBusted.
C15_ArgumentsKept == [][deck' = deck /\ dealerHand' = dealerHand]_vars

OneThirteenth == Num(FALSE, <<1>>, 0, 1)
FourThirteenths == Num(FALSE, <<4>>, 0, 1)

\* C16: the dealer distribution of every call, and every distribution left in
\* dealerCache, has an empty bj bucket; a two-card 21 from a 10 or an ace upcard
\* is in the 21 bucket (at least 1/13 from a 10, at least 4/13 from an ace).
C16_NoBlackjackBucket ==
  evOut.called =>
    /\ IsZero(evOut.dealerDist.bj)
    /\ \A k \in DOMAIN dealerCache : IsZero(dealerCache[k].bj)
    /\ evOut.args.dealerUpVal = 10 => Cmp(evOut.dealerDist.b21, OneThirteenth) >= 0
    /\ evOut.args.dealerUpVal = 11 => Cmp(evOut.dealerDist.b21, FourThirteenths) >= 0

C16_AceUpTwentyOne ==
  /\ evOut.called
  /\ evOut.args.dealerUpVal = 11
  /\ evOut.rules.dealerHitSoft17
  /\ Cmp(evOut.dealerDist.b21, FourThirteenths) > 0
  /\ IsZero(evOut.dealerDist.bj)

\* the cards the call drew, and those of them that came from a reshuffled deck
DrawnCount == Len(dealerOut.finalHand.cards) - Len(dealerHand.cards)

FromFresh ==
  SubSeq(dealerOut.finalHand.cards, Len(dealerHand.cards) + Len(deck.known) + 1,
         Len(dealerOut.finalHand.cards))

CountRank(cards, r) == Cardinality({i \in DOMAIN cards : cards[i].rank = r})

\* C12: a call can always be completed; it ends on a total of 17 or more; when
\* it drew more cards than the supplied deck held, updatedDeck is a fresh deck
\* of 52 x deckCount cards (4 x deckCount of each rank) less the cards drawn
\* from it, and otherwise it is the supplied deck less the cards popped.
C12_ReshuffleOnEmpty ==
  /\ ~dealerOut.called => playDealerTurn(deck, dealerHand, rules) # {}
  /\ dealerOut.called =>
       /\ calculateHandValue(dealerOut.finalHand.cards) >= 17
       /\ IF DrawnCount > Len(deck.known)
          THEN /\ dealerOut.updatedDeck.known = <<>>
               /\ \A r \in Ranks :
                    CopiesIn(r, dealerOut.updatedDeck.fresh) + CountRank(FromFresh, r)
                      = 4 * rules.deckCount
               /\ BagCardinality(dealerOut.updatedDeck.fresh) + Len(FromFresh)
                    = 52 * rules.deckCount
          ELSE /\ dealerOut.updatedDeck.fresh = EmptyBag
               /\ dealerOut.updatedDeck.known
                    = SubSeq(deck.known, 1, Len(deck.known) - DrawnCount)

\* the supplied deck was empty on entry and the dealer drew twice from the new one
C12_EmptyOnEntry ==
  /\ dealerOut.called
  /\ deck.known = <<>>
  /\ DrawnCount = 2
  /\ rules.deckCount = 1
  /\ BagCardinality(dealerOut.updatedDeck.fresh) = 50

HardTotal(st) == st[1] - 10 * st[2]

\* C13: along a chain of hit successors no state comes back (a chain never
\* returns to the state it started from, whatever that state), the number of
\* hits is bounded, and the states visited short of a bust are among the 30
\* consistent (total, usableAces) states.
C13_ChainsEnd ==
  chain.who # "none" =>
    /\ chain.hits > 0 => chain.cur # chain.start
    /\ HardTotal(chain.cur) >= HardTotal(chain.start) + chain.hits
    /\ chain.hits <= 22 - HardTotal(chain.start)
    /\ chain.cur[1] <= 21 => chain.cur \in StartStates
    /\ chain.cur[1] <= 31 /\ chain.cur[2] \in 0..1
    /\ Cardinality(StartStates) <= 100

\* a ten on soft 12: the total stays, the ace is demoted
C13_SameTotalHardened ==
  /\ chain.who = "player"
  /\ chain.start = <<12, 1>>
  /\ chain.cur = <<12, 0>>
  /\ chain.hits = 1

\* C14: what clearStats returns, and what loadStats returns while the storage
\* holds nothing, is the empty statistics record, and the initialStats object
\* stays empty whatever has been recorded.
C14_ClearGivesEmpty ==
  /\ statsOut.op = "clearStats" => statsOut.value = EmptyStats
  /\ (statsOut.op = "loadStats" /\ storage = NoData) => statsOut.value = EmptyStats
  /\ initialStats = EmptyStats

====
